---- MODULE Spec2Model ----
(***************************************************************************)
(* The io_uring allocation cache (alloc_cache.h): a bounded, intrusively   *)
(* linked LIFO free list of recyclable objects.  Two builds of the header  *)
(* are modelled: the KASAN-aware one (io_alloc_cache_get takes a size and  *)
(* calls the sanitizer) and the plain one.                                 *)
(***************************************************************************)
EXTENDS Integers, Sequences, FiniteSets

\* ------------------------------------------------------------------ bounds
\* Number of objects the backing allocator hands to the caller.
NumEntries == 4
\* Largest value of IO_ALLOC_CACHE_MAX explored (the header's 512, scaled).
MaxCapacity == 3
\* Number of cache calls recorded in one behaviour.
MaxOps == 6

\* ------------------------------------------------------------- vocabulary
\* The NULL pointer; objects are numbered from 1.
NULL == 0
Entries == 1 .. NumEntries
\* The two builds of the header.
Variants == {"kasan", "plain"}
\* size argument the caller passes to io_alloc_cache_get/io_alloc_cache_free.
ObjSize == 1

VARIABLES
    IO_ALLOC_CACHE_MAX, \* the capacity of this build: fixed by Init, never written
    variant,            \* which build of the header runs
    list_next,          \* cache->list.next, the head of the stack
    nr_cached,          \* cache->nr_cached
    node_next,          \* entry->node.next of every object
    poisoned,           \* KASAN shadow state of every object
    payload,            \* the rest of every object's memory
    kasan_calls,        \* the sanitizer call-outs made so far, in call order
    life,               \* caller's view of every object: Live, Idle, Freed
    hist,               \* the calls made so far, with their results
    loop,               \* position of a running io_alloc_cache_free loop
    race,               \* two contexts running cache functions access by access
    twin                \* the other build of the header, run side by side

vars == <<IO_ALLOC_CACHE_MAX, variant, list_next, nr_cached, node_next,
          poisoned, payload, kasan_calls, life, hist, loop, race, twin>>

\* The memory the cache functions operate on, as one value.
Heap ==
    [list_next |-> list_next, nr_cached |-> nr_cached, next |-> node_next,
     poisoned |-> poisoned, payload |-> payload, calls |-> kasan_calls]

\* ---------------------------------------------------- external call-outs
\* io_uring/slist.h: node->next = stack->next; stack->next = node.
wq_stack_add_head(h, node) ==
    [h EXCEPT !.next[node] = h.list_next, !.list_next = node]

\* KASAN: poison the object (no-op on a build without the sanitizer).
kasan_slab_free_mempool(h, entry) ==
    [h EXCEPT !.poisoned[entry] = TRUE,
              !.calls = Append(@, [fn |-> "kasan_slab_free_mempool",
                                   entry |-> entry, size |-> 0])]

\* KASAN: make size bytes at entry accessible again.
kasan_unpoison_range(h, entry, size) ==
    LET h1 == [h EXCEPT !.calls = Append(@, [fn |-> "kasan_unpoison_range",
                                             entry |-> entry, size |-> size])]
    IN  IF size > 0 THEN [h1 EXCEPT !.poisoned[entry] = FALSE] ELSE h1

\* ------------------------------------------------ KASAN build (part_000)
\* Mutant: the object is poisoned before the capacity test, so a refused put
\* poisons it too.
io_alloc_cache_put_poisons_first(h, entry, max) ==
    LET h0 == kasan_slab_free_mempool(h, entry)
    IN  IF h0.nr_cached < max
        THEN LET h1 == [h0 EXCEPT !.nr_cached = h0.nr_cached + 1]
             IN  [h |-> wq_stack_add_head(h1, entry), ret |-> TRUE]
        ELSE [h |-> h0, ret |-> FALSE]

\* Mutant: the object is scrubbed when it is released.
io_alloc_cache_put_scrubs(h, entry, max) ==
    IF h.nr_cached < max
    THEN LET h1 == [h EXCEPT !.nr_cached = h.nr_cached + 1]
             h2 == wq_stack_add_head(h1, entry)
             h3 == kasan_slab_free_mempool(h2, entry)
         IN  [h |-> [h3 EXCEPT !.payload[entry] = 0], ret |-> TRUE]
    ELSE [h |-> h, ret |-> FALSE]

\* Mutant: the capacity test is off by one (<= for <).
io_alloc_cache_put_off_by_one(h, entry, max) ==
    IF h.nr_cached <= max
    THEN LET h1 == [h EXCEPT !.nr_cached = h.nr_cached + 1]
             h2 == wq_stack_add_head(h1, entry)
             h3 == kasan_slab_free_mempool(h2, entry)
         IN  [h |-> h3, ret |-> TRUE]
    ELSE [h |-> h, ret |-> FALSE]

io_alloc_cache_put(h, entry, max) ==
    IF h.nr_cached < max
    THEN LET h1 == [h EXCEPT !.nr_cached = h.nr_cached + 1]
             h2 == wq_stack_add_head(h1, entry)
             h3 == kasan_slab_free_mempool(h2, entry)
         IN  [h |-> h3, ret |-> TRUE]
    ELSE [h |-> h, ret |-> FALSE]

\* Mutant: the head is unlinked without being unpoisoned.
io_alloc_cache_get_no_unpoison(h, size) ==
    IF h.list_next # NULL
    THEN LET node == h.list_next
         IN  [h |-> [h EXCEPT !.list_next = h.next[node]], ret |-> node]
    ELSE [h |-> h, ret |-> NULL]

io_alloc_cache_get(h, size) ==
    IF h.list_next # NULL
    THEN LET node  == h.list_next
             entry == node
             h1    == kasan_unpoison_range(h, entry, size)
             h2    == [h1 EXCEPT !.list_next = h1.next[node]]
         IN  [h |-> h2, ret |-> entry]
    ELSE [h |-> h, ret |-> NULL]

\* Mutant: only the head is reset, nr_cached keeps its value.
io_alloc_cache_init_keeps_count(h) ==
    [h EXCEPT !.list_next = NULL]

io_alloc_cache_init(h) ==
    [h EXCEPT !.list_next = NULL, !.nr_cached = 0]

\* The while loop of io_alloc_cache_free: freed collects the arguments of the
\* free() callback in call order.
RECURSIVE io_alloc_cache_free_loop(_, _, _)
io_alloc_cache_free_loop(h, size, freed) ==
    LET g == io_alloc_cache_get(h, size)
    IN  IF g.ret # NULL
        THEN io_alloc_cache_free_loop(g.h, size, Append(freed, g.ret))
        ELSE [h |-> g.h, freed |-> freed]

\* Mutant: nr_cached is not reset after the loop.
io_alloc_cache_free_keeps_count(h, size) ==
    LET r == io_alloc_cache_free_loop(h, size, << >>)
    IN  [h |-> r.h, freed |-> r.freed]

io_alloc_cache_free(h, size) ==
    LET r == io_alloc_cache_free_loop(h, size, << >>)
    IN  [h |-> [r.h EXCEPT !.nr_cached = 0], freed |-> r.freed]

\* ------------------------------------------------ plain build (part_001)
\* Mutant: the two stores of the push are swapped (stack->next = node before
\* node->next = stack->next), so the new head links to itself.
io_alloc_cache_put_plain_self_link(h, entry, max) ==
    IF h.nr_cached < max
    THEN LET h1 == [h EXCEPT !.nr_cached = h.nr_cached + 1]
             h2 == [h1 EXCEPT !.list_next = entry]
             h3 == [h2 EXCEPT !.next[entry] = h2.list_next]
         IN  [h |-> h3, ret |-> TRUE]
    ELSE [h |-> h, ret |-> FALSE]

\* Mutant: the new head is linked to nothing (entry->node.next = NULL), so
\* the entries already cached fall off the chain.
io_alloc_cache_put_plain_drops_chain(h, entry, max) ==
    IF h.nr_cached < max
    THEN LET h1 == [h EXCEPT !.nr_cached = h.nr_cached + 1]
             h2 == [h1 EXCEPT !.next[entry] = NULL, !.list_next = entry]
         IN  [h |-> h2, ret |-> TRUE]
    ELSE [h |-> h, ret |-> FALSE]

io_alloc_cache_put_plain(h, entry, max) ==
    IF h.nr_cached < max
    THEN LET h1 == [h EXCEPT !.nr_cached = h.nr_cached + 1]
             h2 == wq_stack_add_head(h1, entry)
         IN  [h |-> h2, ret |-> TRUE]
    ELSE [h |-> h, ret |-> FALSE]

\* Mutant: get also decrements nr_cached.
io_alloc_cache_get_plain_decrements(h) ==
    IF h.list_next # NULL
    THEN LET node == h.list_next
             h1   == [h EXCEPT !.list_next = h.next[node],
                               !.nr_cached = h.nr_cached - 1]
         IN  [h |-> h1, ret |-> node]
    ELSE [h |-> h, ret |-> NULL]

\* Mutant: the emptiness test reads the head's link instead of the head.
io_alloc_cache_get_plain_tests_link(h) ==
    IF h.list_next # NULL /\ h.next[h.list_next] # NULL
    THEN LET node == h.list_next
             h1   == [h EXCEPT !.list_next = h.next[node]]
         IN  [h |-> h1, ret |-> node]
    ELSE [h |-> h, ret |-> NULL]

\* Mutant: the head is returned without being unlinked.
io_alloc_cache_get_plain_no_unlink(h) ==
    IF h.list_next # NULL
    THEN [h |-> h, ret |-> h.list_next]
    ELSE [h |-> h, ret |-> NULL]

io_alloc_cache_get_plain(h) ==
    IF h.list_next # NULL
    THEN LET node == h.list_next
             h1   == [h EXCEPT !.list_next = h.next[node]]
         IN  [h |-> h1, ret |-> node]
    ELSE [h |-> h, ret |-> NULL]

io_alloc_cache_init_plain(h) ==
    [h EXCEPT !.list_next = NULL, !.nr_cached = 0]

RECURSIVE io_alloc_cache_free_loop_plain(_, _)
io_alloc_cache_free_loop_plain(h, freed) ==
    IF h.list_next # NULL
    THEN LET node == h.list_next
             h1   == [h EXCEPT !.list_next = h.next[node]]
         IN  io_alloc_cache_free_loop_plain(h1, Append(freed, node))
    ELSE [h |-> h, freed |-> freed]

\* Mutant: free() is called on every entry but the head is never advanced
\* past them.
io_alloc_cache_free_plain_keeps_list(h) ==
    LET r == io_alloc_cache_free_loop_plain(h, << >>)
    IN  [h |-> [h EXCEPT !.nr_cached = 0], freed |-> r.freed]

\* Mutant: the list is dropped without calling free() on its entries.
io_alloc_cache_free_plain_no_callback(h) ==
    [h |-> [h EXCEPT !.list_next = NULL, !.nr_cached = 0], freed |-> << >>]

io_alloc_cache_free_plain(h) ==
    LET r == io_alloc_cache_free_loop_plain(h, << >>)
    IN  [h |-> [r.h EXCEPT !.nr_cached = 0], freed |-> r.freed]

\* ------------------------------------------------------ build selection
CachePut(h, entry) ==
    IF variant = "kasan"
    THEN io_alloc_cache_put(h, entry, IO_ALLOC_CACHE_MAX)
    ELSE io_alloc_cache_put_plain(h, entry, IO_ALLOC_CACHE_MAX)

CacheGet(h) ==
    IF variant = "kasan"
    THEN io_alloc_cache_get(h, ObjSize)
    ELSE io_alloc_cache_get_plain(h)

CacheFree(h) ==
    IF variant = "kasan"
    THEN io_alloc_cache_free(h, ObjSize)
    ELSE io_alloc_cache_free_plain(h)

CacheInit(v, h) ==
    IF v = "kasan" THEN io_alloc_cache_init(h) ELSE io_alloc_cache_init_plain(h)

\* --------------------------------------------------------------- helpers
\* The entries reachable from pointer p by following the link fields, in
\* order, to the NULL terminator.
RECURSIVE ChainFrom(_, _)
ChainFrom(next, p) ==
    IF p = NULL THEN << >> ELSE <<p>> \o ChainFrom(next, next[p])

Chain == ChainFrom(node_next, list_next)

Range(s) == {s[i] : i \in 1 .. Len(s)}

\* One record of the call log: the call, its argument, its return value, the
\* arguments of the free() callback in call order, and the memory it ran on.
Call(op, arg, ret, freed) ==
    [op |-> op, arg |-> arg, ret |-> ret, freed |-> freed, pre |-> Heap,
     was |-> life]

\* No io_alloc_cache_free loop is running.
NoLoop == [pc |-> "idle", freed |-> << >>, pre |-> << >>, was |-> << >>]

\* A context that is not inside a cache function.  Inside one, pc is the
\* next memory access or call-out, node and tmp are the function's locals,
\* freed the arguments of the free() callback so far, report the objects the
\* sanitizer caught it accessing while poisoned, pre and was the memory and
\* the caller's view when the function was entered.
NoThread ==
    [op |-> "none", arg |-> NULL, pc |-> "idle", node |-> NULL, tmp |-> NULL,
     ret |-> NULL, freed |-> << >>, report |-> {}, pre |-> << >>,
     was |-> << >>]

\* No two contexts have been started: mode says whether the callers hold a
\* lock around each call, owner which context holds it (0: nobody).
NoRace == [mode |-> "none", owner |-> 0, thr |-> <<NoThread, NoThread>>]

\* No second build runs side by side.
NoTwin == [on |-> FALSE]

\* Writes the heap an operation returns back to the state.
StoreHeap(h) ==
    /\ list_next' = h.list_next
    /\ nr_cached' = h.nr_cached
    /\ node_next' = h.next
    /\ poisoned' = h.poisoned
    /\ payload' = h.payload
    /\ kasan_calls' = h.calls

\* ------------------------------------------------------------------ init
\* A cache embedded in freshly allocated (uninitialised) memory, after
\* io_alloc_cache_init; every object is held by the caller.
Init ==
    /\ IO_ALLOC_CACHE_MAX \in (MaxCapacity - 1) .. MaxCapacity
    /\ variant \in Variants
    /\ node_next = [e \in Entries |-> NULL]
    /\ poisoned = [e \in Entries |-> FALSE]
    /\ payload = [e \in Entries |-> e]
    /\ kasan_calls = << >>
    /\ loop = NoLoop
    /\ race = NoRace
    /\ twin = NoTwin
    /\ life = [e \in Entries |-> "Live"]
    /\ hist = << >>
    /\ \E garbage \in Entries :
         LET h == CacheInit(variant,
                     [list_next |-> garbage, nr_cached |-> garbage,
                      next |-> node_next, poisoned |-> poisoned,
                      payload |-> payload, calls |-> kasan_calls])
         IN  list_next = h.list_next /\ nr_cached = h.nr_cached

\* --------------------------------------------------------------- actions
\* The caller releases an object it holds into the cache.
Put(e) ==
    /\ Len(hist) < MaxOps
    /\ loop.pc = "idle"
    /\ life[e] = "Live"
    /\ LET r == CachePut(Heap, e)
       IN  /\ StoreHeap(r.h)
           /\ life' = IF r.ret THEN [life EXCEPT ![e] = "Idle"] ELSE life
           /\ hist' = Append(hist, Call("put", e, r.ret, << >>))
    /\ UNCHANGED <<IO_ALLOC_CACHE_MAX, variant, race, twin, loop>>

\* The caller asks the cache for an object.
Get ==
    /\ Len(hist) < MaxOps
    /\ loop.pc = "idle"
    /\ LET r == CacheGet(Heap)
       IN  /\ StoreHeap(r.h)
           /\ life' = IF r.ret # NULL
                      THEN [life EXCEPT ![r.ret] = "Live"] ELSE life
           /\ hist' = Append(hist, Call("get", NULL, r.ret, << >>))
    /\ UNCHANGED <<IO_ALLOC_CACHE_MAX, variant, race, twin, loop>>

\* The caller drains the cache; the free() callback returns each object to
\* the backing allocator.
Drain ==
    /\ Len(hist) < MaxOps
    /\ loop.pc = "idle"
    /\ LET r == CacheFree(Heap)
       IN  /\ StoreHeap(r.h)
           /\ life' = [e \in Entries |->
                         IF e \in Range(r.freed) THEN "Freed" ELSE life[e]]
           /\ hist' = Append(hist, Call("drain", NULL, NULL, r.freed))
    /\ UNCHANGED <<IO_ALLOC_CACHE_MAX, variant, race, twin, loop>>

Next ==
    \/ \E e \in Entries : Put(e)
    \/ Get
    \/ Drain

Spec == Init /\ [][Next]_vars

\* The caller initialises the cache again, whatever it holds; the entries
\* that were linked are not touched and stay as the caller left them.
Reinit ==
    /\ Len(hist) < MaxOps
    /\ loop.pc = "idle"
    /\ StoreHeap(CacheInit(variant, Heap))
    /\ hist' = Append(hist, Call("init", NULL, NULL, << >>))
    /\ UNCHANGED <<IO_ALLOC_CACHE_MAX, variant, race, twin, life, loop>>

\* One call shorter than Spec: the extra call multiplies the behaviours.
NextReinit ==
    /\ Len(hist) < MaxOps - 1
    /\ \/ \E e \in Entries : Put(e)
       \/ Get
       \/ Drain
       \/ Reinit

\* The cache with io_alloc_cache_init callable in any state.
SpecReinit == Init /\ [][NextReinit]_vars

\* ------------------------------------------------------- reading the log
N == Len(hist)
Last == hist[N]
ChainOf(h) == ChainFrom(h.next, h.list_next)
NoDuplicates(s) == \A i, j \in 1 .. Len(s) : s[i] = s[j] => i = j

\* The call log from call i on consists of put calls only.
OnlyPutsFrom(i) == \A j \in i .. N : hist[j].op = "put"
\* Call i - 1 left the cache freshly initialised or drained.
FreshAt(i) == i = 1 \/ hist[i - 1].op = "drain"

\* The stack the contract describes, computed from the calls and their
\* results alone: an accepted put pushes its argument, a get pops, a drain
\* empties.  Most recent first.
RECURSIVE Lifo(_)
Lifo(n) ==
    IF n = 0 THEN << >>
    ELSE LET c == hist[n]
             s == Lifo(n - 1)
         IN  CASE c.op = "put" -> IF c.ret THEN <<c.arg>> \o s ELSE s
               [] c.op = "get" -> IF s = << >> THEN s ELSE Tail(s)
               [] OTHER -> << >>

\* ------------------------------------------- the drain loop, step by step
\* One evaluation of the loop condition of io_alloc_cache_free in the KASAN
\* build: the entry io_alloc_cache_get hands to the body, or NULL to leave.
io_alloc_cache_free_iter(h, size) ==
    LET g == io_alloc_cache_get(h, size)
    IN  [h |-> g.h, entry |-> g.ret]

\* Mutant: the loop body calls free() on the head but never advances it.
io_alloc_cache_free_iter_plain_no_advance(h) ==
    [h |-> h, entry |-> h.list_next]

\* One evaluation of the loop condition and, if it holds, the unlink of the
\* body in the plain build.
io_alloc_cache_free_iter_plain(h) ==
    IF h.list_next # NULL
    THEN LET node == h.list_next
         IN  [h |-> [h EXCEPT !.list_next = h.next[node]], entry |-> node]
    ELSE [h |-> h, entry |-> NULL]

\* The statement after the loop: cache->nr_cached = 0.
io_alloc_cache_free_exit(h) ==
    [h EXCEPT !.nr_cached = 0]

CacheFreeIter(h) ==
    IF variant = "kasan"
    THEN io_alloc_cache_free_iter(h, ObjSize)
    ELSE io_alloc_cache_free_iter_plain(h)

\* The caller enters io_alloc_cache_free.
DrainEnter ==
    /\ loop.pc = "idle"
    /\ loop' = [pc |-> "loop", freed |-> << >>, pre |-> Heap, was |-> life]
    /\ UNCHANGED <<IO_ALLOC_CACHE_MAX, variant, race, twin, list_next,
                   nr_cached, node_next, poisoned, payload, kasan_calls,
                   life, hist>>

\* One iteration: the head is popped and passed to free(), which returns it
\* to the backing allocator and does not touch the cache.
DrainIter ==
    /\ loop.pc = "loop"
    /\ Len(loop.freed) <= NumEntries
    /\ LET it == CacheFreeIter(Heap)
       IN  /\ it.entry # NULL
           /\ StoreHeap(it.h)
           /\ life' = [life EXCEPT ![it.entry] = "Freed"]
           /\ loop' = [loop EXCEPT !.freed = Append(@, it.entry)]
    /\ UNCHANGED <<IO_ALLOC_CACHE_MAX, variant, race, twin, hist>>

\* The loop condition fails: nr_cached is reset and the function returns.
DrainExit ==
    /\ loop.pc = "loop"
    /\ LET it == CacheFreeIter(Heap)
       IN  /\ it.entry = NULL
           /\ StoreHeap(io_alloc_cache_free_exit(it.h))
    /\ hist' = Append(hist, [op |-> "drain", arg |-> NULL, ret |-> NULL,
                             freed |-> loop.freed, pre |-> loop.pre,
                             was |-> loop.was])
    /\ loop' = NoLoop
    /\ UNCHANGED <<IO_ALLOC_CACHE_MAX, variant, race, twin, life>>

\* Two calls shorter than Spec: the loop steps multiply the behaviours.
NextDrain ==
    \/ /\ Len(hist) < MaxOps - 2
       /\ \/ \E e \in Entries : Put(e)
          \/ Get
          \/ DrainEnter
    \/ DrainIter
    \/ DrainExit

\* The cache with io_alloc_cache_free running one loop iteration at a time;
\* a loop that has been entered keeps running.
SpecDrain ==
    Init /\ [][NextDrain]_vars /\ WF_vars(DrainIter) /\ WF_vars(DrainExit)

\* --------------------------------------------------------------- claims

\* C1: in every reachable state nr_cached equals the number of nodes
\* reachable from the head's link chain.
C1_CountEqualsChainLength == nr_cached = Len(Chain)

\* C2: from a freshly initialised or drained cache, in a run of put calls
\* with no get or drain in between, put returns true on exactly the first
\* IO_ALLOC_CACHE_MAX calls and false afterwards; and always
\* 0 <= nr_cached <= IO_ALLOC_CACHE_MAX.
C2_CapacityBound ==
    /\ 0 <= nr_cached /\ nr_cached <= IO_ALLOC_CACHE_MAX
    /\ \A i \in 1 .. N :
         FreshAt(i) /\ OnlyPutsFrom(i)
           => (Last.ret <=> N - i + 1 <= IO_ALLOC_CACHE_MAX)

\* A put run from a fresh cache whose last call is the first one refused.
C2_Witness ==
    /\ N = IO_ALLOC_CACHE_MAX + 1
    /\ OnlyPutsFrom(1)
    /\ ~Last.ret
    /\ IO_ALLOC_CACHE_MAX = MaxCapacity

\* C3: put returns failure only when exactly IO_ALLOC_CACHE_MAX entries are
\* linked; whenever fewer are linked, put of a Live entry succeeds.
C3_PutFailsOnlyWhenFull ==
    N >= 1 /\ Last.op = "put"
      => LET linked == Len(ChainOf(Last.pre))
         IN  /\ ~Last.ret => linked = IO_ALLOC_CACHE_MAX
             /\ linked < IO_ALLOC_CACHE_MAX => Last.ret

\* C4: LIFO.  Three accepted puts followed by gets hand the entries back in
\* reverse order, and every get returns the most recently put entry that has
\* not yet been returned or drained.
C4_Lifo ==
    /\ \A k \in 1 .. 3 :
         /\ N >= 3 + k
         /\ \A j \in N - k - 2 .. N - k : hist[j].op = "put" /\ hist[j].ret
         /\ \A j \in N - k + 1 .. N : hist[j].op = "get"
         => Last.ret = hist[N - 2 * k + 1].arg
    /\ N >= 1 /\ Last.op = "get" /\ Lifo(N - 1) # << >>
         => Last.ret = Head(Lifo(N - 1))

\* put(a); put(b); put(c) all accepted, then three gets, the last returning a.
C4_Witness ==
    /\ N >= 6
    /\ \A j \in N - 5 .. N - 3 : hist[j].op = "put" /\ hist[j].ret
    /\ \A j \in N - 2 .. N : hist[j].op = "get"
    /\ Last.ret = hist[N - 5].arg
    /\ hist[N - 1].ret = hist[N - 4].arg
    /\ hist[N - 2].ret = hist[N - 3].arg

\* C5: no entry is returned by get twice without an accepted put of it in
\* between, and an entry get returns is no longer reachable from the head.
C5_NoDoubleHandOut ==
    N >= 1 /\ Last.op = "get" /\ Last.ret # NULL
      => /\ Last.ret \notin Range(Chain)
         /\ \A i \in 1 .. N - 1 :
              hist[i].op = "get" /\ hist[i].ret = Last.ret
                => \E j \in i + 1 .. N - 1 :
                     /\ hist[j].op = "put"
                     /\ hist[j].arg = Last.ret
                     /\ hist[j].ret

\* An entry handed out a second time, after it was put back.
C5_Witness ==
    /\ N >= 4 /\ Last.op = "get" /\ Last.ret # NULL
    /\ \E i \in 1 .. N - 1 : hist[i].op = "get" /\ hist[i].ret = Last.ret
    /\ Chain # << >>

\* Entry e was accepted by a put and has since neither been returned by get
\* nor passed to the free() callback.
Outstanding(e) ==
    \E i \in 1 .. N :
      /\ hist[i].op = "put" /\ hist[i].arg = e /\ hist[i].ret
      /\ \A j \in i + 1 .. N :
           /\ ~(hist[j].op = "get" /\ hist[j].ret = e)
           /\ ~(hist[j].op = "drain" /\ e \in Range(hist[j].freed))

PostHeap(i) == IF i = N THEN Heap ELSE hist[i + 1].pre

\* C7: drain completeness.  drain calls free() exactly once on each entry
\* that was linked when it started and on no other entry; afterwards the
\* chain is empty and get returns NULL.
C7_DrainComplete ==
    /\ N >= 1 /\ Last.op = "drain"
         => LET c == ChainOf(Last.pre)
            IN  /\ Range(Last.freed) = Range(c)
                /\ Len(Last.freed) = Len(c)
                /\ NoDuplicates(Last.freed)
                /\ Chain = << >>
                /\ CacheGet(Heap).ret = NULL
    /\ N >= 2 /\ hist[N - 1].op = "drain" /\ Last.op = "get"
         => Last.ret = NULL

\* A drain of at least two entries, followed by a get.
C7_Witness ==
    /\ N >= 2 /\ hist[N - 1].op = "drain" /\ Last.op = "get"
    /\ Len(hist[N - 1].freed) >= 2
    /\ Last.ret = NULL

\* C8: idempotent drain.  drain on an empty cache calls free() zero times and
\* leaves head NULL and nr_cached 0; a second drain with no put in between
\* leaves the memory exactly as the first drain left it.
C8_DrainIdempotent ==
    /\ N >= 1 /\ Last.op = "drain" /\ ChainOf(Last.pre) = << >>
         => /\ Last.freed = << >>
            /\ list_next = NULL /\ nr_cached = 0
            /\ node_next = Last.pre.next
            /\ poisoned = Last.pre.poisoned
            /\ payload = Last.pre.payload
    /\ \A i \in 1 .. N - 1 :
         /\ hist[i].op = "drain" /\ Last.op = "drain"
         /\ \A j \in i + 1 .. N - 1 : hist[j].op # "put"
         => Last.freed = << >> /\ Heap = PostHeap(i)

\* A drain that freed entries, directly followed by a second drain.
C8_Witness ==
    /\ N >= 2 /\ hist[N - 1].op = "drain" /\ Last.op = "drain"
    /\ hist[N - 1].freed # << >>
    /\ Last.freed = << >>

\* C9: round trip.  An accepted put(e) directly followed by get returns e;
\* head and chain are as before the put; of the objects' memory only e's
\* link field may have been written.
C9_RoundTrip ==
    N >= 2 /\ hist[N - 1].op = "put" /\ hist[N - 1].ret /\ Last.op = "get"
      => LET e == hist[N - 1].arg
             b == hist[N - 1].pre
         IN  /\ Last.ret = e
             /\ list_next = b.list_next
             /\ Chain = ChainOf(b)
             /\ payload = b.payload
             /\ \A x \in Entries \ {e} : node_next[x] = b.next[x]

\* A round trip on a cache that already held entries.
C9_Witness ==
    /\ N >= 2 /\ hist[N - 1].op = "put" /\ hist[N - 1].ret /\ Last.op = "get"
    /\ Last.ret = hist[N - 1].arg
    /\ Len(Chain) >= 2

\* The first three calls are puts, followed by gets only up to call n.
ScenarioPrefix(n) ==
    /\ IO_ALLOC_CACHE_MAX = 2
    /\ N >= n
    /\ \A j \in 1 .. n : hist[j].op = (IF j <= 3 THEN "put" ELSE "get")

\* C10: with IO_ALLOC_CACHE_MAX = 2 and a fresh cache, put(a) and put(b)
\* return true, put(c) returns false and leaves c unlinked, then get returns
\* b, a and NULL.
C10_Scenario ==
    /\ ScenarioPrefix(1) => hist[1].ret
    /\ ScenarioPrefix(2) => hist[2].ret
    /\ ScenarioPrefix(3)
         => /\ ~hist[3].ret
            /\ hist[3].arg \notin Range(ChainOf(PostHeap(3)))
            /\ PostHeap(3).list_next = hist[2].arg
    /\ ScenarioPrefix(4) => hist[4].ret = hist[2].arg
    /\ ScenarioPrefix(5) => hist[5].ret = hist[1].arg
    /\ ScenarioPrefix(6) => hist[6].ret = NULL

\* The whole scenario has run.
C10_Witness ==
    /\ ScenarioPrefix(6)
    /\ hist[1].ret /\ hist[2].ret /\ ~hist[3].ret
    /\ hist[4].ret = hist[2].arg /\ hist[5].ret = hist[1].arg
    /\ hist[6].ret = NULL

\* C11: a put that returns failure mutates nothing: head, nr_cached, every
\* link field, the poison state and the sanitizer call log are as before.
C11_FailedPutNoMutation ==
    N >= 1 /\ Last.op = "put" /\ ~Last.ret
      => Heap = Last.pre /\ life = Last.was

\* A put refused by a cache that holds entries.
C11_Witness ==
    /\ N >= 1 /\ Last.op = "put" /\ ~Last.ret
    /\ Chain # << >>
    /\ variant = "kasan"

\* C12: get returns NULL exactly when the chain is empty, and then leaves
\* head and nr_cached unchanged and makes no sanitizer call-out.
C12_GetEmpty ==
    N >= 1 /\ Last.op = "get"
      => /\ Last.ret = NULL <=> ChainOf(Last.pre) = << >>
         /\ Last.ret \in Entries \cup {NULL}
         /\ Last.ret = NULL => Heap = Last.pre

\* A get on an empty chain whose nr_cached is not zero, after a get that
\* emptied a one-entry chain.
C12_Witness ==
    /\ N >= 3 /\ Last.op = "get" /\ Last.ret = NULL
    /\ nr_cached > 0
    /\ hist[N - 1].op = "get" /\ hist[N - 1].ret # NULL

\* C13: per-entry lifecycle.  An entry changes state only Live -> Idle by an
\* accepted put of it, Idle -> Live by a get returning it, Idle -> Freed by a
\* drain passing it to free(); free() is called only on Idle entries; a Freed
\* entry is never linked or returned again.
C13_Lifecycle ==
    /\ N >= 1 =>
         /\ \A e \in Entries :
              Last.was[e] # life[e]
                => \/ /\ Last.was[e] = "Live" /\ life[e] = "Idle"
                      /\ Last.op = "put" /\ Last.arg = e /\ Last.ret
                   \/ /\ Last.was[e] = "Idle" /\ life[e] = "Live"
                      /\ Last.op = "get" /\ Last.ret = e
                   \/ /\ Last.was[e] = "Idle" /\ life[e] = "Freed"
                      /\ Last.op = "drain" /\ e \in Range(Last.freed)
         /\ \A e \in Range(Last.freed) : Last.was[e] = "Idle"
         /\ Last.op = "get" /\ Last.ret # NULL => Last.was[Last.ret] = "Idle"
    /\ \A e \in Entries : life[e] = "Freed" => e \notin Range(Chain)

\* Entries were freed by a drain, and a later get returned another entry.
C13_Witness ==
    /\ N >= 4 /\ Last.op = "get" /\ Last.ret # NULL
    /\ \E e \in Entries : life[e] = "Freed"

C15_InitFrame ==
    N >= 1 /\ Last.op = "init"
      => /\ list_next = NULL /\ nr_cached = 0
         /\ node_next = Last.pre.next
         /\ poisoned = Last.pre.poisoned
         /\ payload = Last.pre.payload
         /\ kasan_calls = Last.pre.calls
         /\ Last.freed = << >> /\ life = Last.was

\* io_alloc_cache_init on a cache that holds two linked entries.
C15_Witness ==
    /\ N >= 1 /\ Last.op = "init"
    /\ Len(ChainOf(Last.pre)) >= 2
    /\ Last.pre.nr_cached > 0
    /\ list_next = NULL /\ nr_cached = 0

\* C16: put succeeds iff nr_cached < IO_ALLOC_CACHE_MAX at the call; on
\* success nr_cached grows by exactly 1, the entry is the new head, its link
\* is the previous head and every other link field is unchanged.
C16_PutEffect ==
    N >= 1 /\ Last.op = "put"
      => /\ Last.ret <=> Last.pre.nr_cached < IO_ALLOC_CACHE_MAX
         /\ Last.ret
              => /\ nr_cached = Last.pre.nr_cached + 1
                 /\ list_next = Last.arg
                 /\ node_next[Last.arg] = Last.pre.list_next
                 /\ \A x \in Entries \ {Last.arg} :
                      node_next[x] = Last.pre.next[x]

\* An accepted put onto a non-empty chain whose nr_cached is stale.
C16_Witness ==
    /\ N >= 1 /\ Last.op = "put" /\ Last.ret
    /\ Last.pre.list_next # NULL
    /\ Last.pre.nr_cached > Len(ChainOf(Last.pre))

\* C17: a successful get returns the entry that was head, sets the head to
\* that entry's stored link and leaves nr_cached and every link field
\* unchanged; nr_cached changes only by an accepted put (+1) and by init and
\* drain (to 0).
C17_GetEffect ==
    /\ N >= 1 /\ Last.op = "get" /\ Last.ret # NULL
         => /\ Last.ret = Last.pre.list_next
            /\ list_next = Last.pre.next[Last.ret]
            /\ nr_cached = Last.pre.nr_cached
            /\ node_next = Last.pre.next
    /\ N >= 1 /\ nr_cached # Last.pre.nr_cached
         => \/ /\ Last.op = "put" /\ Last.ret
               /\ nr_cached = Last.pre.nr_cached + 1
            \/ Last.op \in {"init", "drain"} /\ nr_cached = 0

\* A successful get that leaves entries linked, after an init had reset a
\* non-zero nr_cached.
C17_Witness ==
    /\ N >= 4 /\ Last.op = "get" /\ Last.ret # NULL
    /\ Chain # << >>
    /\ \E i \in 1 .. N - 1 : hist[i].op = "init" /\ hist[i].pre.nr_cached > 0

\* Number of put calls among calls i .. N.
PutsFrom(i) == Cardinality({j \in i .. N : hist[j].op = "put"})

\* C18: drain leaves head and nr_cached exactly as io_alloc_cache_init does,
\* also when entries had been handed out by get before; after a drain the
\* next IO_ALLOC_CACHE_MAX puts all succeed.
C18_DrainResets ==
    /\ N >= 1 /\ Last.op = "drain"
         => LET i == CacheInit(variant, Last.pre)
            IN  /\ list_next = i.list_next /\ nr_cached = i.nr_cached
                /\ list_next = NULL /\ nr_cached = 0
    /\ \A i \in 1 .. N - 1 :
         /\ hist[i].op = "drain" /\ Last.op = "put"
         /\ \A j \in i + 1 .. N - 1 : hist[j].op \notin {"drain", "init"}
         /\ PutsFrom(i + 1) <= IO_ALLOC_CACHE_MAX
         => Last.ret

\* A drain of a cache whose nr_cached exceeded its chain length, followed by
\* IO_ALLOC_CACHE_MAX accepted puts.
C18_Witness ==
    /\ N >= 2 /\ Last.op = "put" /\ Last.ret
    /\ \E i \in 1 .. N - 1 :
         /\ hist[i].op = "drain"
         /\ hist[i].pre.nr_cached > Len(ChainOf(hist[i].pre))
         /\ \A j \in i + 1 .. N : hist[j].op = "put"
         /\ N - i = IO_ALLOC_CACHE_MAX

\* The first fuel entries met by following the link fields from p.
RECURSIVE Walk(_, _, _)
Walk(next, p, fuel) ==
    IF p = NULL \/ fuel = 0 THEN << >>
    ELSE <<p>> \o Walk(next, next[p], fuel - 1)

\* C19: with puts of Live entries only, the chain from the head is acyclic,
\* holds no entry twice and ends in NULL.
C19_ChainWellFormed ==
    LET w == Walk(node_next, list_next, NumEntries + 1)
    IN  /\ Len(w) <= NumEntries
        /\ NoDuplicates(w)
        /\ \A e \in Entries : node_next[e] \in Entries \cup {NULL}
        /\ list_next \in Entries \cup {NULL}

\* Entries put after an init that left other entries behind, still linked to
\* each other.
C19_Witness ==
    /\ N >= 4 /\ Last.op = "put" /\ Last.ret
    /\ Len(Chain) >= 2
    /\ \E e \in Entries :
         life[e] = "Idle" /\ e \notin Range(Chain) /\ node_next[e] # NULL

\* C20: drain terminates.  A loop entered on a chain of n entries runs
\* exactly n iterations and then returns, leaving what the whole function
\* leaves.
C20_DrainTerminates ==
    /\ (loop.pc = "loop") ~> (loop.pc = "idle")
    /\ [](loop.pc = "loop"
            => Len(loop.freed) + Len(Chain) = Len(ChainOf(loop.pre)))
    /\ [](loop.pc = "idle" /\ N >= 1 /\ Last.op = "drain"
            => /\ Len(Last.freed) = Len(ChainOf(Last.pre))
               /\ Last.freed = CacheFree(Last.pre).freed
               /\ Heap = CacheFree(Last.pre).h)

\* A loop over three entries has returned.
C20_Witness ==
    /\ loop.pc = "idle" /\ N >= 1 /\ Last.op = "drain"
    /\ Len(Last.freed) = 3
    /\ Chain = << >>

\* Index of the last io_alloc_cache_init or io_alloc_cache_free call in the
\* log, 0 when there is none (the cache is as Init left it).
LastReset ==
    LET R == {i \in 1 .. N : hist[i].op \in {"init", "drain"}}
    IN  IF R = {} THEN 0 ELSE CHOOSE i \in R : \A j \in R : j <= i

\* Number of put calls that returned true since the last init or drain.
AcceptedSinceReset ==
    Cardinality({j \in LastReset + 1 .. N : hist[j].op = "put" /\ hist[j].ret})

\* Number of get calls that returned an entry since the last init or drain.
GetsSinceReset ==
    Cardinality({j \in LastReset + 1 .. N :
                   hist[j].op = "get" /\ hist[j].ret # NULL})

\* C22: in every state (entries linked in the chain) <= nr_cached <=
\* IO_ALLOC_CACHE_MAX, and nr_cached is the number of put calls that
\* returned true since the last init or drain, however many get calls were
\* made; so the entries the cache retains, all Idle, never number more than
\* IO_ALLOC_CACHE_MAX.
C22_CountBounds ==
    /\ Len(Chain) <= nr_cached
    /\ nr_cached <= IO_ALLOC_CACHE_MAX
    /\ nr_cached = AcceptedSinceReset
    /\ \A e \in Range(Chain) : life[e] = "Idle"
    /\ Cardinality(Range(Chain)) <= IO_ALLOC_CACHE_MAX

\* After an init, the cache was filled to capacity and a get then took an
\* entry out: nr_cached stays at the capacity, above the chain's length.
C22_Witness ==
    /\ LastReset >= 1 /\ hist[LastReset].op = "init"
    /\ AcceptedSinceReset = IO_ALLOC_CACHE_MAX
    /\ GetsSinceReset >= 1
    /\ nr_cached = IO_ALLOC_CACHE_MAX
    /\ Len(Chain) < nr_cached

\* ------------------------------- the cache functions, access by access
Goto(t, pc) == [t EXCEPT !.pc = pc]
Return(t, ret) == [t EXCEPT !.pc = "done", !.ret = ret]

\* KASAN: an access to an object that is poisoned is caught and reported.
Touch(h, t, entry) ==
    IF h.poisoned[entry] THEN [t EXCEPT !.report = @ \cup {entry}] ELSE t

\* Mutant: the object is poisoned before it is linked (lines 18 and 20
\* swapped).
io_alloc_cache_put_step_poisons_first(h, t, max) ==
    CASE t.pc = "test" ->
           [h |-> h, t |-> IF h.nr_cached < max THEN Goto(t, "inc_load")
                                                ELSE Return(t, FALSE)]
      [] t.pc = "inc_load" ->
           [h |-> h, t |-> [t EXCEPT !.tmp = h.nr_cached, !.pc = "inc_store"]]
      [] t.pc = "inc_store" ->
           [h |-> [h EXCEPT !.nr_cached = t.tmp + 1], t |-> Goto(t, "poison")]
      [] t.pc = "poison" ->
           [h |-> kasan_slab_free_mempool(h, t.arg),
            t |-> Goto(t, "link_load")]
      [] t.pc = "link_load" ->
           [h |-> h, t |-> [t EXCEPT !.tmp = h.list_next, !.pc = "link_store"]]
      [] t.pc = "link_store" ->
           [h |-> [h EXCEPT !.next[t.arg] = t.tmp],
            t |-> Touch(h, Goto(t, "head_store"), t.arg)]
      [] t.pc = "head_store" ->
           [h |-> [h EXCEPT !.list_next = t.arg], t |-> Return(t, TRUE)]

\* io_alloc_cache_put of the KASAN build: the test of nr_cached (line 16),
\* the load and the store of nr_cached++ (line 17), the load of stack->next,
\* the store to node->next and the store to stack->next of wq_stack_add_head
\* (line 18), the sanitizer call-out (line 20).
io_alloc_cache_put_step(h, t, max) ==
    CASE t.pc = "test" ->
           [h |-> h, t |-> IF h.nr_cached < max THEN Goto(t, "inc_load")
                                                ELSE Return(t, FALSE)]
      [] t.pc = "inc_load" ->
           [h |-> h, t |-> [t EXCEPT !.tmp = h.nr_cached, !.pc = "inc_store"]]
      [] t.pc = "inc_store" ->
           [h |-> [h EXCEPT !.nr_cached = t.tmp + 1],
            t |-> Goto(t, "link_load")]
      [] t.pc = "link_load" ->
           [h |-> h, t |-> [t EXCEPT !.tmp = h.list_next, !.pc = "link_store"]]
      [] t.pc = "link_store" ->
           [h |-> [h EXCEPT !.next[t.arg] = t.tmp],
            t |-> Touch(h, Goto(t, "head_store"), t.arg)]
      [] t.pc = "head_store" ->
           [h |-> [h EXCEPT !.list_next = t.arg], t |-> Goto(t, "poison")]
      [] t.pc = "poison" ->
           [h |-> kasan_slab_free_mempool(h, t.arg), t |-> Return(t, TRUE)]

\* io_alloc_cache_get of the KASAN build: the test of the head (line 32),
\* the load of the head (line 33), the sanitizer call-out (line 35), the
\* load of node->next and the store to the head (line 36).
io_alloc_cache_get_step(h, t, size) ==
    CASE t.pc = "test" ->
           [h |-> h, t |-> IF h.list_next # NULL THEN Goto(t, "node_load")
                                                 ELSE Return(t, NULL)]
      [] t.pc = "node_load" ->
           [h |-> h, t |-> [t EXCEPT !.node = h.list_next, !.pc = "unpoison"]]
      [] t.pc = "unpoison" ->
           [h |-> kasan_unpoison_range(h, t.node, size),
            t |-> Goto(t, "link_load")]
      [] t.pc = "link_load" ->
           [h |-> h,
            t |-> Touch(h, [t EXCEPT !.tmp = h.next[t.node],
                                     !.pc = "head_store"], t.node)]
      [] t.pc = "head_store" ->
           [h |-> [h EXCEPT !.list_next = t.tmp], t |-> Return(t, t.node)]

\* io_alloc_cache_free of the KASAN build: the accesses of the
\* io_alloc_cache_get in the loop condition (line 56), the free() callback
\* on the entry it returned (line 57), the store nr_cached = 0 (line 60).
io_alloc_cache_free_step(h, t, size) ==
    CASE t.pc = "callback" ->
           [h |-> h,
            t |-> Touch(h, [t EXCEPT !.freed = Append(@, t.ret),
                                     !.pc = "test"], t.ret)]
      [] t.pc = "reset" ->
           [h |-> [h EXCEPT !.nr_cached = 0], t |-> Return(t, NULL)]
      [] OTHER ->
           LET g == io_alloc_cache_get_step(h, t, size)
           IN  IF g.t.pc # "done" THEN g
               ELSE [h |-> g.h,
                     t |-> Goto(g.t, IF g.t.ret # NULL THEN "callback"
                                                       ELSE "reset")]

\* Mutant: the push stores NULL in node->next instead of the head it loaded.
io_alloc_cache_put_step_plain_drops_chain(h, t, max) ==
    CASE t.pc = "test" ->
           [h |-> h, t |-> IF h.nr_cached < max THEN Goto(t, "inc_load")
                                                ELSE Return(t, FALSE)]
      [] t.pc = "inc_load" ->
           [h |-> h, t |-> [t EXCEPT !.tmp = h.nr_cached, !.pc = "inc_store"]]
      [] t.pc = "inc_store" ->
           [h |-> [h EXCEPT !.nr_cached = t.tmp + 1],
            t |-> Goto(t, "link_load")]
      [] t.pc = "link_load" ->
           [h |-> h, t |-> [t EXCEPT !.tmp = h.list_next, !.pc = "link_store"]]
      [] t.pc = "link_store" ->
           [h |-> [h EXCEPT !.next[t.arg] = NULL],
            t |-> Goto(t, "head_store")]
      [] t.pc = "head_store" ->
           [h |-> [h EXCEPT !.list_next = t.arg], t |-> Return(t, TRUE)]

\* io_alloc_cache_put of the plain build: lines 16, 17 and 18 as in the
\* KASAN build, no call-out.
io_alloc_cache_put_step_plain(h, t, max) ==
    CASE t.pc = "test" ->
           [h |-> h, t |-> IF h.nr_cached < max THEN Goto(t, "inc_load")
                                                ELSE Return(t, FALSE)]
      [] t.pc = "inc_load" ->
           [h |-> h, t |-> [t EXCEPT !.tmp = h.nr_cached, !.pc = "inc_store"]]
      [] t.pc = "inc_store" ->
           [h |-> [h EXCEPT !.nr_cached = t.tmp + 1],
            t |-> Goto(t, "link_load")]
      [] t.pc = "link_load" ->
           [h |-> h, t |-> [t EXCEPT !.tmp = h.list_next, !.pc = "link_store"]]
      [] t.pc = "link_store" ->
           [h |-> [h EXCEPT !.next[t.arg] = t.tmp],
            t |-> Goto(t, "head_store")]
      [] t.pc = "head_store" ->
           [h |-> [h EXCEPT !.list_next = t.arg], t |-> Return(t, TRUE)]

\* io_alloc_cache_get of the plain build: the test of the head (line 28),
\* the load of the head (line 29), the load of node->next and the store to
\* the head (line 30).
io_alloc_cache_get_step_plain(h, t) ==
    CASE t.pc = "test" ->
           [h |-> h, t |-> IF h.list_next # NULL THEN Goto(t, "node_load")
                                                 ELSE Return(t, NULL)]
      [] t.pc = "node_load" ->
           [h |-> h, t |-> [t EXCEPT !.node = h.list_next, !.pc = "link_load"]]
      [] t.pc = "link_load" ->
           [h |-> h, t |-> [t EXCEPT !.tmp = h.next[t.node],
                                     !.pc = "head_store"]]
      [] t.pc = "head_store" ->
           [h |-> [h EXCEPT !.list_next = t.tmp], t |-> Return(t, t.node)]

\* io_alloc_cache_free of the plain build: the loop condition (line 49), the
\* unlink of the head (lines 50 and 52), the free() callback (line 53), the
\* store nr_cached = 0 (line 56).
io_alloc_cache_free_step_plain(h, t) ==
    CASE t.pc = "test" ->
           [h |-> h, t |-> Goto(t, IF h.list_next # NULL THEN "node_load"
                                                         ELSE "reset")]
      [] t.pc = "node_load" ->
           [h |-> h, t |-> [t EXCEPT !.node = h.list_next, !.pc = "link_load"]]
      [] t.pc = "link_load" ->
           [h |-> h, t |-> [t EXCEPT !.tmp = h.next[t.node],
                                     !.pc = "head_store"]]
      [] t.pc = "head_store" ->
           [h |-> [h EXCEPT !.list_next = t.tmp],
            t |-> [t EXCEPT !.ret = t.node, !.pc = "callback"]]
      [] t.pc = "callback" ->
           [h |-> h, t |-> [t EXCEPT !.freed = Append(@, t.ret),
                                     !.pc = "test"]]
      [] t.pc = "reset" ->
           [h |-> [h EXCEPT !.nr_cached = 0], t |-> Return(t, NULL)]

\* The next access of context t, in the build that runs.
CacheStep(h, t) ==
    CASE t.op = "put" ->
           IF variant = "kasan"
           THEN io_alloc_cache_put_step(h, t, IO_ALLOC_CACHE_MAX)
           ELSE io_alloc_cache_put_step_plain(h, t, IO_ALLOC_CACHE_MAX)
      [] t.op = "get" ->
           IF variant = "kasan"
           THEN io_alloc_cache_get_step(h, t, ObjSize)
           ELSE io_alloc_cache_get_step_plain(h, t)
      [] t.op = "drain" ->
           IF variant = "kasan"
           THEN io_alloc_cache_free_step(h, t, ObjSize)
           ELSE io_alloc_cache_free_step_plain(h, t)

\* What the whole function the context runs does to memory h, as one step.
CacheCall(h, t) ==
    CASE t.op = "put" ->
           LET r == CachePut(h, t.arg)
           IN  [h |-> r.h, ret |-> r.ret, freed |-> << >>]
      [] t.op = "get" ->
           LET r == CacheGet(h)
           IN  [h |-> r.h, ret |-> r.ret, freed |-> << >>]
      [] t.op = "drain" ->
           LET r == CacheFree(h)
           IN  [h |-> r.h, ret |-> NULL, freed |-> r.freed]

ThreadIds == 1 .. 2
RaceModes == {"locked", "unlocked"}
\* The functions the second context may run; the first one runs put.
RaceOps == {"put", "get", "drain"}

\* The callers start two contexts on the same cache: the first releases
\* object a, the second releases another object b, or gets, or (with the
\* lock only) drains.  In mode "locked" each takes the callers' lock around
\* its call.  Two puts run the same code, so a < b loses no behaviour.
RaceStart(mode, op, a, b) ==
    /\ race.mode = "none"
    /\ loop.pc = "idle"
    /\ life[a] = "Live"
    /\ IF op = "put" THEN b \in Entries /\ a < b /\ life[b] = "Live"
                     ELSE b = NULL
    /\ op = "drain" => mode = "locked"
    /\ race' = [mode |-> mode, owner |-> 0,
                thr |-> <<[NoThread EXCEPT !.op = "put", !.arg = a,
                                           !.pc = "call"],
                          [NoThread EXCEPT !.op = op, !.arg = b,
                                           !.pc = "call"]>>]
    /\ UNCHANGED <<IO_ALLOC_CACHE_MAX, variant, twin, loop, list_next,
                   nr_cached, node_next, poisoned, payload, kasan_calls,
                   life, hist>>

\* Context i enters its function, after taking the lock in mode "locked".
RaceEnter(i) ==
    /\ race.thr[i].pc = "call"
    /\ race.mode = "locked" => race.owner = 0
    /\ race' = [race EXCEPT !.owner = IF race.mode = "locked" THEN i ELSE 0,
                            !.thr[i] = [@ EXCEPT !.pc = "test",
                                                 !.pre = Heap, !.was = life]]
    /\ UNCHANGED <<IO_ALLOC_CACHE_MAX, variant, twin, loop, list_next,
                   nr_cached, node_next, poisoned, payload, kasan_calls,
                   life, hist>>

\* Context i makes its next access; an object passed to free() goes back to
\* the backing allocator.
RaceStep(i) ==
    /\ race.thr[i].pc \notin {"idle", "call", "done", "returned"}
    /\ LET r == CacheStep(Heap, race.thr[i])
       IN  /\ StoreHeap(r.h)
           /\ race' = [race EXCEPT !.thr[i] = r.t]
           /\ life' = [e \in Entries |->
                         IF e \in Range(r.t.freed) THEN "Freed" ELSE life[e]]
    /\ UNCHANGED <<IO_ALLOC_CACHE_MAX, variant, twin, loop, hist>>

\* Context i returns to its caller, which logs the call and drops the lock.
RaceReturn(i) ==
    /\ race.thr[i].pc = "done"
    /\ LET t == race.thr[i]
       IN  /\ hist' = Append(hist, [op |-> t.op, arg |-> t.arg,
                                    ret |-> t.ret, freed |-> t.freed,
                                    pre |-> t.pre, was |-> t.was])
           /\ life' = CASE t.op = "put" /\ t.ret ->
                             [life EXCEPT ![t.arg] = "Idle"]
                        [] t.op = "get" /\ t.ret # NULL ->
                             [life EXCEPT ![t.ret] = "Live"]
                        [] OTHER -> life
    /\ race' = [race EXCEPT !.owner = 0, !.thr[i].pc = "returned"]
    /\ UNCHANGED <<IO_ALLOC_CACHE_MAX, variant, twin, loop, list_next,
                   nr_cached, node_next, poisoned, payload, kasan_calls>>

\* A short run of whole calls, then the two contexts.
NextRace ==
    \/ /\ race.mode = "none"
       /\ Len(hist) < MaxOps - 5
       /\ \/ \E e \in Entries : Put(e)
          \/ Get
    \/ \E mode \in RaceModes, op \in RaceOps, a \in Entries,
          b \in Entries \cup {NULL} : RaceStart(mode, op, a, b)
    \/ \E i \in ThreadIds : RaceEnter(i)
    \/ \E i \in ThreadIds : RaceStep(i)
    \/ \E i \in ThreadIds : RaceReturn(i)

\* Two contexts on one cache, with and without the callers' lock.
SpecRace == Init /\ [][NextRace]_vars

\* The entries met by following the link fields from the head.
Reachable == Range(Walk(node_next, list_next, NumEntries + 1))

\* Every entry accepted and not handed out since is reachable from the head,
\* and nr_cached is the number of accepted puts since the last init or drain.
RaceConsistent ==
    /\ \A e \in Entries : Outstanding(e) => e \in Reachable
    /\ nr_cached = AcceptedSinceReset

\* Both contexts have returned.
RaceOver == \A i \in ThreadIds : race.thr[i].pc = "returned"

\* C21: the cache is not internally synchronised.  When each call runs
\* under the callers' lock, whenever the lock is free every accepted entry
\* is reachable from the head and nr_cached is the number of accepted puts,
\* and each call leaves exactly what the function run as one step leaves.
\* (Without the lock the accesses of two calls interleave and a state with
\* a lost entry and a lost increment is reachable: C21_Witness.)
C21_LockedConsistent ==
    race.mode = "locked" =>
      /\ race.owner = 0 => RaceConsistent
      /\ \A i \in ThreadIds :
           race.thr[i].pc = "done" =>
             LET t == race.thr[i]
                 c == CacheCall(t.pre, t)
             IN  Heap = c.h /\ t.ret = c.ret /\ t.freed = c.freed

\* Two put calls without the lock, both returning true: one of the two
\* entries is not reachable from the head, and nr_cached went up by one.
C21_Witness ==
    /\ race.mode = "unlocked" /\ RaceOver
    /\ race.thr[2].op = "put"
    /\ race.thr[1].ret /\ race.thr[2].ret
    /\ \E e \in {race.thr[1].arg, race.thr[2].arg} :
         Outstanding(e) /\ e \notin Reachable
    /\ nr_cached = AcceptedSinceReset - 1

\* A put and a get without the lock: the put returned true, the get handed
\* out another entry, and the entry put is not reachable from the head.
C21_PutGetLost ==
    /\ race.mode = "unlocked" /\ RaceOver
    /\ race.thr[2].op = "get"
    /\ race.thr[1].ret
    /\ race.thr[2].ret \notin {NULL, race.thr[1].arg}
    /\ Outstanding(race.thr[1].arg)
    /\ race.thr[1].arg \notin Reachable

\* Without the lock nr_cached can pass the capacity.
C21_OverCapacity ==
    /\ race.mode = "unlocked" /\ RaceOver
    /\ nr_cached > IO_ALLOC_CACHE_MAX

\* The most recent sanitizer call-out is fn on entry.
LastKasanCall(fn, entry) ==
    /\ kasan_calls # << >>
    /\ kasan_calls[Len(kasan_calls)].fn = fn
    /\ kasan_calls[Len(kasan_calls)].entry = entry

\* C23: in the KASAN build, with exclusive access, the cache never loads or
\* stores an entry's link field while the entry is poisoned.  In put the
\* link is stored before kasan_slab_free_mempool poisons the entry; in get
\* kasan_unpoison_range unpoisons the head entry before its link is loaded;
\* in drain each entry has been unpoisoned by the get path when free() is
\* called on it.
C23_NoPoisonedLinkAccess ==
    variant = "kasan" /\ race.mode = "locked" =>
      \A i \in ThreadIds :
        LET t == race.thr[i]
        IN  /\ t.report = {}
            /\ t.op = "put" /\ t.pc \in {"link_load", "link_store"}
                 => ~poisoned[t.arg]
            /\ t.op = "put" /\ t.pc = "poison"
                 => /\ ~poisoned[t.arg]
                    /\ node_next[t.arg] = t.tmp
                    /\ list_next = t.arg
            /\ t.op = "put" /\ t.pc = "done" /\ t.ret
                 => /\ poisoned[t.arg]
                    /\ LastKasanCall("kasan_slab_free_mempool", t.arg)
            /\ t.op \in {"get", "drain"} /\ t.pc = "link_load"
                 => /\ ~poisoned[t.node]
                    /\ LastKasanCall("kasan_unpoison_range", t.node)
            /\ t.op = "drain" /\ t.pc = "callback"
                 => /\ ~poisoned[t.ret]
                    /\ LastKasanCall("kasan_unpoison_range", t.ret)

\* Under the lock a put has linked and poisoned its entry and a drain has
\* then passed two entries, that one included, to free().
C23_Witness ==
    /\ variant = "kasan" /\ race.mode = "locked" /\ RaceOver
    /\ race.thr[1].ret
    /\ race.thr[2].op = "drain"
    /\ Len(race.thr[2].freed) = 2
    /\ race.thr[2].freed[1] = race.thr[1].arg
    /\ \E k \in 1 .. Len(kasan_calls) :
         /\ kasan_calls[k].fn = "kasan_slab_free_mempool"
         /\ kasan_calls[k].entry = race.thr[1].arg
         /\ \E l \in k + 1 .. Len(kasan_calls) :
              /\ kasan_calls[l].fn = "kasan_unpoison_range"
              /\ kasan_calls[l].entry = race.thr[1].arg

\* Without the lock a get can load the link of an entry that a put running
\* beside it has just poisoned.
C23_UnlockedReport ==
    /\ variant = "kasan" /\ race.mode = "unlocked"
    /\ \E i \in ThreadIds : race.thr[i].report # {}

\* ------------------------------------------- the two builds side by side
\* The build that does not run on the state variables runs on twin.h.
OtherVariant == IF variant = "kasan" THEN "plain" ELSE "kasan"

TwinPut(h, entry) ==
    IF OtherVariant = "kasan"
    THEN io_alloc_cache_put(h, entry, IO_ALLOC_CACHE_MAX)
    ELSE io_alloc_cache_put_plain(h, entry, IO_ALLOC_CACHE_MAX)

TwinGet(h) ==
    IF OtherVariant = "kasan"
    THEN io_alloc_cache_get(h, ObjSize)
    ELSE io_alloc_cache_get_plain(h)

TwinFree(h) ==
    IF OtherVariant = "kasan"
    THEN io_alloc_cache_free(h, ObjSize)
    ELSE io_alloc_cache_free_plain(h)

\* io_alloc_cache_init is called on both caches.  The first call finds the
\* second cache in uninitialised memory, with objects like the first one's.
PairInit ==
    /\ loop.pc = "idle" /\ race.mode = "none"
    /\ StoreHeap(CacheInit(variant, Heap))
    /\ \E garbage \in Entries :
         LET h == IF twin.on THEN twin.h
                  ELSE [Heap EXCEPT !.list_next = garbage,
                                    !.nr_cached = garbage]
         IN  twin' = [on |-> TRUE, h |-> CacheInit(OtherVariant, h),
                      ret |-> NULL, freed |-> << >>]
    /\ hist' = Append(hist, Call("init", NULL, NULL, << >>))
    /\ UNCHANGED <<IO_ALLOC_CACHE_MAX, variant, race, life, loop>>

\* The same put on both caches.
PairPut(e) ==
    /\ loop.pc = "idle" /\ race.mode = "none" /\ twin.on
    /\ life[e] = "Live"
    /\ LET r == CachePut(Heap, e)
           q == TwinPut(twin.h, e)
       IN  /\ StoreHeap(r.h)
           /\ twin' = [twin EXCEPT !.h = q.h, !.ret = q.ret,
                                   !.freed = << >>]
           /\ life' = IF r.ret THEN [life EXCEPT ![e] = "Idle"] ELSE life
           /\ hist' = Append(hist, Call("put", e, r.ret, << >>))
    /\ UNCHANGED <<IO_ALLOC_CACHE_MAX, variant, race, loop>>

\* The same get on both caches.
PairGet ==
    /\ loop.pc = "idle" /\ race.mode = "none" /\ twin.on
    /\ LET r == CacheGet(Heap)
           q == TwinGet(twin.h)
       IN  /\ StoreHeap(r.h)
           /\ twin' = [twin EXCEPT !.h = q.h, !.ret = q.ret,
                                   !.freed = << >>]
           /\ life' = IF r.ret # NULL
                      THEN [life EXCEPT ![r.ret] = "Live"] ELSE life
           /\ hist' = Append(hist, Call("get", NULL, r.ret, << >>))
    /\ UNCHANGED <<IO_ALLOC_CACHE_MAX, variant, race, loop>>

\* The same drain on both caches.
PairDrain ==
    /\ loop.pc = "idle" /\ race.mode = "none" /\ twin.on
    /\ LET r == CacheFree(Heap)
           q == TwinFree(twin.h)
       IN  /\ StoreHeap(r.h)
           /\ twin' = [twin EXCEPT !.h = q.h, !.ret = NULL,
                                   !.freed = q.freed]
           /\ life' = [e \in Entries |->
                         IF e \in Range(r.freed) THEN "Freed" ELSE life[e]]
           /\ hist' = Append(hist, Call("drain", NULL, NULL, r.freed))
    /\ UNCHANGED <<IO_ALLOC_CACHE_MAX, variant, race, loop>>

\* One call shorter than Spec, the first call being the init of both.
NextPair ==
    /\ Len(hist) < MaxOps - 1
    /\ \/ PairInit
       \/ \E e \in Entries : PairPut(e)
       \/ PairGet
       \/ PairDrain

\* Both builds of the header driven by the same calls.
SpecPair == Init /\ [][NextPair]_vars

\* The memory of the plain build and of the KASAN build in a side-by-side
\* run.
PlainHeap == IF variant = "plain" THEN Heap ELSE twin.h
KasanHeap == IF variant = "kasan" THEN Heap ELSE twin.h

\* C24: the two builds are observationally equivalent on cache state.  After
\* the same calls both have returned the same value and passed the same
\* entries to free() in the same order, and they hold the same head, link
\* fields, chain, nr_cached and object contents; they differ only in the
\* sanitizer call-outs, which the plain build never makes.
C24_BuildsEquivalent ==
    twin.on =>
      /\ twin.ret = Last.ret
      /\ twin.freed = Last.freed
      /\ twin.h.list_next = list_next
      /\ twin.h.next = node_next
      /\ ChainOf(twin.h) = Chain
      /\ twin.h.nr_cached = nr_cached
      /\ twin.h.payload = payload
      /\ PlainHeap.calls = << >>
      /\ \A e \in Entries : ~PlainHeap.poisoned[e]

\* After init, puts and a get that handed out an entry, a drain has passed
\* an entry to free() in both builds; the KASAN build made call-outs.
C24_Witness ==
    /\ twin.on /\ N >= 4
    /\ hist[1].op = "init"
    /\ \E i \in 2 .. N - 1 : hist[i].op = "get" /\ hist[i].ret # NULL
    /\ Last.op = "drain" /\ Last.freed # << >>
    /\ twin.freed = Last.freed
    /\ Len(KasanHeap.calls) >= 4

====
